---- MODULE Spec2Model ----
(***************************************************************************)
(* Portfolio ledger of the "portefeuille" application.                     *)
(*                                                                         *)
(* The model follows PortfolioLayout (the orchestrator) and db.ts (the     *)
(* Supabase data layer).  The store (variable db) holds the four tables;   *)
(* portfolios / portfolioData / currentPortfolioId are the React state     *)
(* that refreshData() loads from the store.  Every handler is one action:  *)
(* it reads the React state it closes over, issues its store writes and    *)
(* ends with refreshData() when the code does.                             *)
(*                                                                         *)
(* JavaScript numbers are modelled as exact rationals (records num/den);   *)
(* the passive display fields name, currency and sector are left out.      *)
(***************************************************************************)
EXTENDS Integers, Sequences, FiniteSets, Bags, TLC

(***************************************************************************)
(* Bounds of the model.                                                    *)
(***************************************************************************)
\* Transactions ever created (crypto.randomUUID() is modelled by a counter).
MaxTx == 3
\* Rows in one call of handleImportTransactions.
MaxImport == 2
\* Saves of the edit dialog.
MaxEdits == 1
\* The identifiers crypto.randomUUID may yield are 1..MaxUuid.
MaxUuid == 3
MaxFaults == 1
MaxWrites == 8
MaxPortfolios == 2
MaxRefresh == 3

Null == "null"

\* A number | undefined field (stopLoss, manualCurrentPrice): no number, or x.
Unset == {}
Value(x) == {x}
ALL == "ALL"

(***************************************************************************)
(* Numbers: exact rationals in lowest terms, den > 0.                      *)
(***************************************************************************)
Abs(n) == IF n < 0 THEN -n ELSE n

RECURSIVE GCD(_, _)
GCD(a, b) == IF b = 0 THEN a ELSE GCD(b, a % b)

Frac(n, d) ==
    LET s == IF d < 0 THEN -1 ELSE 1
        g == GCD(Abs(n), Abs(d))
    IN  [num |-> (s * n) \div g, den |-> (s * d) \div g]

Num(n) == [num |-> n, den |-> 1]
Plus(a, b) == Frac(a.num * b.den + b.num * a.den, a.den * b.den)
Minus(a, b) == Frac(a.num * b.den - b.num * a.den, a.den * b.den)
Times(a, b) == Frac(a.num * b.num, a.den * b.den)
\* JavaScript x / 0 is NaN or Infinity: kept apart from every number.
NaN == [num |-> 0, den |-> 0]
Div(a, b) == IF b.num = 0 \/ a.den = 0 THEN NaN ELSE Frac(a.num * b.den, a.den * b.num)
\* x || d on a number: d when x is 0 (or missing).
OrElse(x, d) == IF x = 0 THEN d ELSE x

(***************************************************************************)
(* Codes are strings, modelled as sequences of characters so that          *)
(* trim() and toUpperCase() are computed.                                  *)
(***************************************************************************)
LowerCase == <<"a", "b", "c", "d", "e", "f", "g", "h", "i", "j", "k", "l", "m",
               "n", "o", "p", "q", "r", "s", "t", "u", "v", "w", "x", "y", "z">>
UpperCase == <<"A", "B", "C", "D", "E", "F", "G", "H", "I", "J", "K", "L", "M",
               "N", "O", "P", "Q", "R", "S", "T", "U", "V", "W", "X", "Y", "Z">>
WhiteSpace == {" ", "\t", "\n", "\r"}

toUpperCase(s) ==
    [i \in DOMAIN s |->
        IF \E k \in DOMAIN LowerCase : LowerCase[k] = s[i]
        THEN UpperCase[CHOOSE k \in DOMAIN LowerCase : LowerCase[k] = s[i]]
        ELSE s[i]]

RECURSIVE trim(_)
trim(s) ==
    IF s = <<>> THEN s
    ELSE IF Head(s) \in WhiteSpace THEN trim(Tail(s))
    ELSE IF s[Len(s)] \in WhiteSpace THEN trim(SubSeq(s, 1, Len(s) - 1))
    ELSE s

\* (code || "").trim().toUpperCase()
NormCode(code) == toUpperCase(trim(code))

\* new Date(date).getTime() of an ISO day: milliseconds since the epoch.
MsPerDay == 86400000
getTime(date) == date * MsPerDay

(***************************************************************************)
(* Inputs.                                                                 *)
(***************************************************************************)
Codes == { <<"a", "a", "p", "l">>, <<"A", "A", "P", "L", " ">> }
CashCode == <<"C", "A", "S", "H">>
Dates == {1, 2}
Quantities == {1, 2}
Amounts == {1, 2}
\* conversionRate, fees, tff of a trade in the portfolio's currency, and of one
\* in a foreign currency.
Domestic == [conversionRate |-> 1, fees |-> 0, tff |-> 0]
Foreign == [conversionRate |-> 2, fees |-> 1, tff |-> 1]

Tx(type, code, date, quantity, unitPrice, cost, tax) ==
    [type |-> type, code |-> code, date |-> date, quantity |-> quantity,
     unitPrice |-> unitPrice, fees |-> cost.fees, tff |-> cost.tff,
     conversionRate |-> cost.conversionRate, tax |-> tax]

BuyInputs ==
    { Tx("achat", c, d, q, 3, k, 0) :
        c \in Codes, d \in Dates, q \in Quantities, k \in {Domestic, Foreign} }
SellInputs ==
    { Tx("vente", c, d, q, 3, Domestic, 0) : c \in Codes, d \in Dates, q \in Quantities }
DividendInputs ==
    { Tx("dividende", c, d, 2, 3, Domestic, 1) : c \in Codes, d \in Dates }
\* A deposit or withdrawal typed into the transaction form.
FormCashInputs ==
    { Tx(ty, CashCode, 1, 1, 2, Domestic, 0) : ty \in {"depot", "retrait"} }
TxInputs == BuyInputs \cup SellInputs \cup DividendInputs \cup FormCashInputs

\* TransactionForm.handleSubmit: onAddTransaction({ ..., code: code.toUpperCase(), ... })
FormSubmit(transaction) == [transaction EXCEPT !.code = toUpperCase(@)]

\* ImportTransactions: code: (getField("code") || "").trim().toUpperCase()
ImportRow(transaction) == [transaction EXCEPT !.code = NormCode(@)]

(***************************************************************************)
(* State.                                                                  *)
(***************************************************************************)
VARIABLES
    db,                  \* the store: portfolios, transactions, positions, closed_positions, settings
    portfolios,          \* React state: Portfolio[] as of the last refreshData()
    portfolioData,       \* React state: per portfolio, its transactions / positions / closedPositions
    currentPortfolioId,  \* React state: null, "ALL" or a portfolio id
    localTransactions,   \* TransactionHistory's state: the rows it lists
    nextId,              \* the next transaction id
    nEdits,              \* saves of the edit dialog so far
    addOnly,             \* every handler run so far was handleAddTransaction (ghost)
    last,                \* the last handler that ran, and with what (ghost)
    nFaults,             \* store writes that failed so far
    calls,               \* the handleAddTransaction calls TransactionsPage started, each
                         \* with its writes and how many of them are done
    quotesBySymbol,      \* useQuotes state: symbol -> the price shown
    loading,             \* useQuotes state
    error,               \* useQuotes state: null or a message
    abortRef,            \* useQuotes ref: the controller of the last refresh, 0 for null
    requests,            \* the getQuotes requests in flight, by the number of their refresh
    answers              \* the prices each answered request got (ghost)

vars == <<db, portfolios, portfolioData, currentPortfolioId, localTransactions,
          nextId, nEdits, addOnly, last, nFaults, calls,
          quotesBySymbol, loading, error, abortRef, requests, answers>>

\* What the handlers of PortfolioLayout leave alone when every write succeeds.
\* The state of useQuotes.
quoteVars == <<quotesBySymbol, loading, error, abortRef, requests, answers>>

others == <<nFaults, calls, quoteVars>>

EmptyData == [transactions |-> {}, positions |-> {}, closedPositions |-> EmptyBag]

\* The closed positions of the bag b that belong to portfolio pid, and the others.
ClosedOf(b, pid) == [r \in {x \in DOMAIN b : x.portfolioId = pid} |-> b[r]]
ClosedNotOf(b, pid) == [r \in {x \in DOMAIN b : x.portfolioId # pid} |-> b[r]]

PortfolioIdsOf(ps) == { ps[i].id : i \in DOMAIN ps }
FindPortfolio(ps, id) == ps[CHOOSE i \in DOMAIN ps : ps[i].id = id]

\* refreshData(): what the React state holds after loading the store d.
PortfolioDataOf(d) ==
    [pid \in PortfolioIdsOf(d.portfolios) |->
        [transactions    |-> { t \in d.transactions : t.portfolioId = pid },
         positions       |-> { p \in d.positions : p.portfolioId = pid },
         closedPositions |-> ClosedOf(d.closed_positions, pid)]]

\* portfolioData[targetId] ?? { transactions: [], positions: [], closedPositions: [] }
DataOf(pid) == IF pid \in DOMAIN portfolioData THEN portfolioData[pid] ELSE EmptyData

(***************************************************************************)
(* db.ts                                                                   *)
(***************************************************************************)
\* updatePortfolio(id, { cash })
updatePortfolio(d, id, cash) ==
    [d EXCEPT !.portfolios =
        [i \in DOMAIN d.portfolios |->
            IF d.portfolios[i].id = id THEN [d.portfolios[i] EXCEPT !.cash = cash]
            ELSE d.portfolios[i]]]

addTransaction(d, tx) == [d EXCEPT !.transactions = @ \cup {tx}]

deleteTransaction(d, id) == [d EXCEPT !.transactions = { t \in @ : t.id # id }]

\* upsert(..., { onConflict: 'portfolio_id,code' }): the row with the same
\* portfolio and the same (raw) code is replaced, otherwise a row is added.
upsertPosition(d, pos) ==
    [d EXCEPT !.positions =
        { p \in @ : ~(p.portfolioId = pos.portfolioId /\ p.code = pos.code) } \cup {pos}]

deletePosition_Noop(d, pid, code) == d

deletePosition(d, pid, code) ==
    [d EXCEPT !.positions = { p \in @ : ~(p.portfolioId = pid /\ p.code = code) }]

addClosedPosition_Replace(d, cp) == [d EXCEPT !.closed_positions = SetToBag({cp})]

addClosedPosition(d, cp) ==
    [d EXCEPT !.closed_positions = @ (+) SetToBag({cp})]

(***************************************************************************)
(* PortfolioLayout: one transaction applied incrementally.                 *)
(***************************************************************************)
\* tx.unitPrice * (tx.conversionRate || 1)
convertedUnitPrice(tx) == tx.unitPrice * OrElse(tx.conversionRate, 1)

\* handlePurchase: tx.quantity * convertedUnitPrice + (tx.fees || 0) + (tx.tff || 0)
PurchaseTotalCost(tx) ==
    tx.quantity * convertedUnitPrice(tx) + OrElse(tx.fees, 0) + OrElse(tx.tff, 0)

\* A slip: fees and tff are converted like the price.
SaleTotalSale_FeesConverted(tx) ==
    tx.quantity * convertedUnitPrice(tx)
        - OrElse(tx.fees, 0) * OrElse(tx.conversionRate, 1)
        - OrElse(tx.tff, 0) * OrElse(tx.conversionRate, 1)

\* handleSale: tx.quantity * convertedUnitPrice - (tx.fees || 0) - (tx.tff || 0)
SaleTotalSale(tx) ==
    tx.quantity * convertedUnitPrice(tx) - OrElse(tx.fees, 0) - OrElse(tx.tff, 0)

\* handleDividend: tx.unitPrice * tx.quantity * (tx.conversionRate || 1) - (tx.tax || 0)
dividendAmount(tx) ==
    tx.unitPrice * tx.quantity * OrElse(tx.conversionRate, 1) - OrElse(tx.tax, 0)

\* portfolios.find(p => p.id === portfolioId), then
\* dbUpdatePortfolio(portfolioId, { cash: (portfolio.cash || 0) + delta })
MoveCash(d, ps, pid, delta) ==
    IF pid \in PortfolioIdsOf(ps)
    THEN updatePortfolio(d, pid, OrElse(FindPortfolio(ps, pid).cash, 0) + delta)
    ELSE d

\* A slip: the new buy's cost replaces the cost so far.
PurchaseMerge_CostReplaced(existing, tx, pid) ==
    LET newTotalCost == Num(PurchaseTotalCost(tx))
        newQuantity  == existing.quantity + tx.quantity
    IN  [portfolioId |-> pid, code |-> tx.code, quantity |-> newQuantity,
         totalCost |-> newTotalCost, pru |-> Div(newTotalCost, Num(newQuantity)),
         stopLoss |-> existing.stopLoss, manualCurrentPrice |-> existing.manualCurrentPrice]

\* The position handlePurchase writes when one is already open.
PurchaseMerge(existing, tx, pid) ==
    LET newTotalCost == Plus(existing.totalCost, Num(PurchaseTotalCost(tx)))
        newQuantity  == existing.quantity + tx.quantity
    IN  [portfolioId |-> pid, code |-> tx.code, quantity |-> newQuantity,
         totalCost |-> newTotalCost, pru |-> Div(newTotalCost, Num(newQuantity)),
         stopLoss |-> existing.stopLoss, manualCurrentPrice |-> existing.manualCurrentPrice]

\* The position handlePurchase writes for a first buy.
PurchaseOpen(tx, pid) ==
    [portfolioId |-> pid, code |-> tx.code, quantity |-> tx.quantity,
     totalCost |-> Num(PurchaseTotalCost(tx)),
     pru |-> Div(Num(PurchaseTotalCost(tx)), Num(tx.quantity)),
     stopLoss |-> Unset, manualCurrentPrice |-> Unset]

\* targetData.positions.find(p => (p.code || "").trim().toUpperCase() === txCode):
\* the rows find() may return (the store returns positions in no fixed order).
PurchaseExisting(targetData, tx) ==
    { p \in targetData.positions : NormCode(p.code) = NormCode(tx.code) }

\* handlePurchase: the stores it may leave.
handlePurchase(d, ps, tx, targetData, pid) ==
    LET d1 == MoveCash(d, ps, pid, 0 - PurchaseTotalCost(tx))
    IN  IF PurchaseExisting(targetData, tx) # {}
        THEN { upsertPosition(d1, PurchaseMerge(existing, tx, pid)) :
                 existing \in PurchaseExisting(targetData, tx) }
        ELSE { upsertPosition(d1, PurchaseOpen(tx, pid)) }

\* targetData.positions.find(p => p.code === tx.code)
SaleExisting(targetData, tx) == { p \in targetData.positions : p.code = tx.code }

\* handleSale's two early returns.
SaleRejected(targetData, tx) ==
    \/ SaleExisting(targetData, tx) = {}
    \/ \E existing \in SaleExisting(targetData, tx) : existing.quantity < tx.quantity

\* reduce((sum, t) => sum + ((t.unitPrice * t.quantity * t.conversionRate) - (t.tax || 0)), 0)
RECURSIVE SumDividends(_)
SumDividends(S) ==
    IF S = {} THEN 0
    ELSE LET t == CHOOSE y \in S : TRUE
         IN  (t.unitPrice * t.quantity * t.conversionRate - OrElse(t.tax, 0))
               + SumDividends(S \ {t})

\* txs.filter(t => t.code === code && t.type === "achat").sort(by date)[0]?.date || date
PurchaseDate(txs, code, date) ==
    LET buys == { t \in txs : t.code = code /\ t.type = "achat" }
    IN  IF buys = {} THEN date
        ELSE (CHOOSE t \in buys : \A u \in buys : getTime(t.date) <= getTime(u.date)).date

\* The dividends of the code dated within [purchaseDate, saleDate], net of tax.
HoldingDividends(txs, code, purchaseDate, saleDate) ==
    SumDividends({ t \in txs : /\ t.code = code /\ t.type = "dividende"
                                /\ getTime(t.date) >= getTime(purchaseDate)
                                /\ getTime(t.date) <= getTime(saleDate) })

\* The ClosedPosition record of a sale of tx from position existing.
ClosedRecord(existing, tx, totalSale, purchaseDate, dividends, pid) ==
    LET totalPurchase == Times(Num(tx.quantity), existing.pru)
        gainLoss      == Minus(Num(totalSale), totalPurchase)
    IN  [portfolioId |-> pid, code |-> tx.code, purchaseDate |-> purchaseDate,
         saleDate |-> tx.date, quantity |-> tx.quantity, pru |-> existing.pru,
         averageSalePrice |-> Div(Num(totalSale), Num(tx.quantity)),
         totalPurchase |-> totalPurchase, totalSale |-> Num(totalSale),
         gainLoss |-> gainLoss,
         gainLossPercent |-> Times(Div(gainLoss, totalPurchase), Num(100)),
         dividends |-> dividends]

\* A slip: the cost basis is not reduced by the units sold.
SaleRemainder_CostKept(existing, tx, pid) ==
    [portfolioId |-> pid, code |-> tx.code, quantity |-> existing.quantity - tx.quantity,
     totalCost |-> existing.totalCost, pru |-> existing.pru,
     stopLoss |-> existing.stopLoss, manualCurrentPrice |-> existing.manualCurrentPrice]

\* The position handleSale writes after a partial sale.
SaleRemainder(existing, tx, pid) ==
    [portfolioId |-> pid, code |-> tx.code, quantity |-> existing.quantity - tx.quantity,
     totalCost |-> Minus(existing.totalCost, Times(Num(tx.quantity), existing.pru)),
     pru |-> existing.pru,
     stopLoss |-> existing.stopLoss, manualCurrentPrice |-> existing.manualCurrentPrice]

\* A slip: the remainder is written even when nothing remains.
SaleWritePosition_AlwaysUpsert(d, existing, tx, pid) ==
    upsertPosition(d, SaleRemainder(existing, tx, pid))

\* if (newQuantity === 0) await dbDeletePosition(portfolioId, tx.code);
\* else await upsertPosition({ ... })
SaleWritePosition(d, existing, tx, pid) ==
    IF existing.quantity - tx.quantity = 0
    THEN deletePosition(d, pid, tx.code)
    ELSE upsertPosition(d, SaleRemainder(existing, tx, pid))

\* handleSale: the store it leaves.
handleSale(d, ps, tx, newTransactions, targetData, pid) ==
    IF SaleRejected(targetData, tx) THEN d
    ELSE
      LET existing     == CHOOSE p \in SaleExisting(targetData, tx) : TRUE
          totalSale    == SaleTotalSale(tx)
          d1           == MoveCash(d, ps, pid, totalSale)
          purchaseDate == PurchaseDate(newTransactions, tx.code, tx.date)
          dividends    == HoldingDividends(newTransactions, tx.code, purchaseDate, tx.date)
          d2           == addClosedPosition(d1,
                             ClosedRecord(existing, tx, totalSale, purchaseDate, dividends, pid))
      IN  SaleWritePosition(d2, existing, tx, pid)

\* handleDividend: the store it leaves.
handleDividend(d, ps, tx, pid) == MoveCash(d, ps, pid, dividendAmount(tx))

\* handleAddTransaction after its guard: the stores it may leave.  ps and
\* data are the React state the handler closes over.
AddTransactionOutcomes(d, ps, data, tx, pid) ==
    LET d1              == addTransaction(d, tx)
        newTransactions == data.transactions \cup {tx}
    IN  CASE tx.type = "achat"     -> handlePurchase(d1, ps, tx, data, pid)
          [] tx.type = "vente"     -> { handleSale(d1, ps, tx, newTransactions, data, pid) }
          [] tx.type = "dividende" -> { handleDividend(d1, ps, tx, pid) }
          [] OTHER                 -> { d1 }

(***************************************************************************)
(* Actions.                                                                *)
(***************************************************************************)
DefaultPortfolioId == "p1"

\* defaultPortfolio of init(): no code.
DefaultPortfolio ==
    [id |-> DefaultPortfolioId, name |-> "Mon portefeuille principal", code |-> Null, cash |-> 0]

\* The state once init() has run on an empty store: the default portfolio,
\* cash 0, is created, made current and loaded.
Init ==
    /\ db = [portfolios |-> << DefaultPortfolio >>,
             transactions |-> {}, positions |-> {}, closed_positions |-> EmptyBag,
             settings |-> { [key |-> "currentPortfolioId", value |-> DefaultPortfolioId] }]
    /\ portfolios = db.portfolios
    /\ portfolioData = PortfolioDataOf(db)
    /\ currentPortfolioId = DefaultPortfolioId
    /\ localTransactions = {}
    /\ nextId = 1
    /\ nEdits = 0
    /\ addOnly = TRUE
    /\ last = [op |-> "init"]
    /\ nFaults = 0
    /\ calls = <<>>
    /\ quotesBySymbol = <<>>
    /\ loading = FALSE
    /\ error = Null
    /\ abortRef = 0
    /\ requests = {}
    /\ answers = <<>>

\* await refreshData(); TransactionHistory's effect then copies the new
\* transactions prop (currentData.transactions) into its local state.
refreshData(d) ==
    /\ portfolios' = d.portfolios
    /\ portfolioData' = PortfolioDataOf(d)
    /\ localTransactions' =
          IF currentPortfolioId = ALL THEN d.transactions
          ELSE IF currentPortfolioId \in PortfolioIdsOf(d.portfolios)
          THEN PortfolioDataOf(d)[currentPortfolioId].transactions
          ELSE {}

handleAddTransaction(transaction, portfolioId) ==
    LET targetId == IF portfolioId # Null THEN portfolioId ELSE currentPortfolioId
        newTx    == [id |-> nextId, portfolioId |-> targetId] @@ transaction
    IN  /\ targetId # Null
        /\ \E d \in AddTransactionOutcomes(db, portfolios, DataOf(targetId), newTx, targetId) :
              /\ db' = d
              /\ refreshData(d)
        /\ nextId' = nextId + 1
        /\ last' = [op |-> "addTransaction", tx |-> newTx]
        /\ UNCHANGED <<currentPortfolioId, nEdits, addOnly>>

\* A slip: the balance check is missing.
CashRejected_Never(newCash) == FALSE

\* handleUpdateCash: if (newCash < 0) { alert(...); return; }
CashRejected(newCash) == newCash < 0

handleUpdateCash(amount, type, date) ==
    /\ currentPortfolioId # Null
    /\ currentPortfolioId \in PortfolioIdsOf(portfolios)
    /\ LET currentPortfolio == FindPortfolio(portfolios, currentPortfolioId)
           newCash == IF type = "deposit" THEN OrElse(currentPortfolio.cash, 0) + amount
                      ELSE OrElse(currentPortfolio.cash, 0) - amount
           newTransaction ==
               [id |-> nextId, portfolioId |-> currentPortfolioId, date |-> date,
                code |-> CashCode, type |-> IF type = "deposit" THEN "depot" ELSE "retrait",
                quantity |-> 1, unitPrice |-> amount, fees |-> 0, tff |-> 0,
                conversionRate |-> 1, tax |-> 0]
       IN  IF CashRejected(newCash)
           THEN /\ UNCHANGED <<db, portfolios, portfolioData, localTransactions, nextId>>
                /\ last' = [op |-> "updateCash", type |-> type, amount |-> amount, rejected |-> TRUE]
           ELSE /\ db' = addTransaction(updatePortfolio(db, currentPortfolioId, newCash),
                                        newTransaction)
                /\ refreshData(db')
                /\ nextId' = nextId + 1
                /\ last' = [op |-> "updateCash", type |-> type, amount |-> amount, rejected |-> FALSE]
    /\ addOnly' = FALSE
    /\ UNCHANGED <<currentPortfolioId, nEdits>>

(***************************************************************************)
(* PortfolioLayout: handleDeleteTransaction's full recomputation.          *)
(***************************************************************************)
\* transaction.quantity * convertedUnitPrice + transaction.fees * transaction.conversionRate
\*   + transaction.tff * transaction.conversionRate
ReplayTotalCost(transaction) ==
    transaction.quantity * (transaction.unitPrice * transaction.conversionRate)
      + transaction.fees * transaction.conversionRate
      + transaction.tff * transaction.conversionRate

ReplayTotalSale(transaction) ==
    transaction.quantity * (transaction.unitPrice * transaction.conversionRate)
      - transaction.fees * transaction.conversionRate
      - transaction.tff * transaction.conversionRate

\* The sequences .sort((a, b) => date(a) - date(b)) may yield for the
\* transactions S: the sort is stable and the store orders equal dates freely.
DateSorted(S) ==
    { seq \in [1..Cardinality(S) -> S] :
        /\ \A i, j \in DOMAIN seq : i # j => seq[i] # seq[j]
        /\ \A i, j \in DOMAIN seq : i < j => getTime(seq[i].date) <= getTime(seq[j].date) }

\* One pass of the forEach body over newPositions / newClosedPositions.
ReplayStep(acc, transaction, updatedTransactions, pid) ==
    LET found == { p \in acc.positions : p.code = transaction.code }
    IN  IF transaction.type = "achat"
        THEN IF found # {}
             THEN LET existing     == CHOOSE p \in found : TRUE
                      newTotalCost == Plus(existing.totalCost, Num(ReplayTotalCost(transaction)))
                      newQuantity  == existing.quantity + transaction.quantity
                  IN  [acc EXCEPT !.positions = (@ \ {existing}) \cup
                          {[existing EXCEPT !.quantity = newQuantity,
                                            !.totalCost = newTotalCost,
                                            !.pru = Div(newTotalCost, Num(newQuantity))]}]
             ELSE [acc EXCEPT !.positions = @ \cup
                      {[portfolioId |-> pid, code |-> transaction.code,
                        quantity |-> transaction.quantity,
                        totalCost |-> Num(ReplayTotalCost(transaction)),
                        pru |-> Div(Num(ReplayTotalCost(transaction)), Num(transaction.quantity)),
                        stopLoss |-> Unset, manualCurrentPrice |-> Unset]}]
        ELSE IF found # {} /\ (CHOOSE p \in found : TRUE).quantity >= transaction.quantity
             THEN LET existing     == CHOOSE p \in found : TRUE
                      totalSale    == ReplayTotalSale(transaction)
                      purchaseDate == PurchaseDate(updatedTransactions, transaction.code,
                                                   transaction.date)
                      dividends    == HoldingDividends(updatedTransactions, transaction.code,
                                                       purchaseDate, transaction.date)
                      closed       == ClosedRecord(existing, transaction, totalSale,
                                                   purchaseDate, dividends, pid)
                      newQuantity  == existing.quantity - transaction.quantity
                  IN  [positions |->
                          IF newQuantity = 0 THEN acc.positions \ {existing}
                          ELSE (acc.positions \ {existing}) \cup
                               {[existing EXCEPT !.quantity = newQuantity,
                                                 !.totalCost = Minus(@, closed.totalPurchase)]},
                       closedPositions |-> acc.closedPositions (+) SetToBag({closed})]
             ELSE acc

RECURSIVE ReplayFrom(_, _, _, _)
ReplayFrom(acc, sorted, updatedTransactions, pid) ==
    IF sorted = <<>> THEN acc
    ELSE ReplayFrom(ReplayStep(acc, Head(sorted), updatedTransactions, pid),
                    Tail(sorted), updatedTransactions, pid)

\* newPositions / newClosedPositions after the forEach over the sorted trades.
Replay(sorted, updatedTransactions, pid) ==
    ReplayFrom([positions |-> {}, closedPositions |-> EmptyBag], sorted, updatedTransactions, pid)

\* The results the recomputation may give for the transactions left.
ReplayOutcomes(updatedTransactions, pid) ==
    { Replay(sorted, updatedTransactions, pid) :
        sorted \in DateSorted({ t \in updatedTransactions : t.type \in {"achat", "vente"} }) }

deletePositionsByPortfolio(d, pid) ==
    [d EXCEPT !.positions = { p \in @ : p.portfolioId # pid }]

deleteClosedPositionsByPortfolio(d, pid) ==
    [d EXCEPT !.closed_positions = ClosedNotOf(@, pid)]

deleteTransactionsByPortfolio(d, pid) ==
    [d EXCEPT !.transactions = { t \in @ : t.portfolioId # pid }]

\* upsert(rows, { onConflict: 'portfolio_id,code' })
bulkUpsertPositions(d, positions) ==
    [d EXCEPT !.positions =
        { p \in @ : ~\E q \in positions : q.portfolioId = p.portfolioId /\ q.code = p.code }
          \cup positions]

bulkAddClosedPositions(d, cps) == [d EXCEPT !.closed_positions = @ (+) cps]

bulkAddTransactions(d, txs) == [d EXCEPT !.transactions = @ \cup txs]

\* The store after handleDeleteTransaction wrote the recomputation r.
DeleteTransactionStore(d, id, r, pid) ==
    bulkAddClosedPositions(
        bulkUpsertPositions(
            deleteClosedPositionsByPortfolio(
                deletePositionsByPortfolio(deleteTransaction(d, id), pid), pid),
            r.positions),
        r.closedPositions)

handleDeleteTransaction(id) ==
    /\ currentPortfolioId # Null
    /\ currentPortfolioId # ALL
    /\ LET updatedTransactions == { t \in DataOf(currentPortfolioId).transactions : t.id # id }
       IN  \E r \in ReplayOutcomes(updatedTransactions, currentPortfolioId) :
              /\ db' = DeleteTransactionStore(db, id, r, currentPortfolioId)
              /\ refreshData(db')
    /\ last' = [op |-> "deleteTransaction", id |-> id,
                type |-> (CHOOSE t \in DataOf(currentPortfolioId).transactions : t.id = id).type,
                addOnly |-> addOnly]
    /\ addOnly' = FALSE
    /\ UNCHANGED <<currentPortfolioId, nextId, nEdits>>

(***************************************************************************)
(* PortfolioLayout: handleImportTransactions.                              *)
(***************************************************************************)
\* The arrays a select without ORDER BY may return for the rows S.
ArraysOf(S) ==
    { seq \in [1..Cardinality(S) -> S] : \A i, j \in DOMAIN seq : i # j => seq[i] # seq[j] }

\* positions.findIndex(p => (p.code || "").trim().toUpperCase() === txCode); 0 for -1.
findIndex(positions, txCode) ==
    IF \E i \in DOMAIN positions : NormCode(positions[i].code) = txCode
    THEN CHOOSE i \in DOMAIN positions :
            /\ NormCode(positions[i].code) = txCode
            /\ \A j \in 1..(i - 1) : NormCode(positions[j].code) # txCode
    ELSE 0

\* positions.splice(idx, 1)
splice(positions, idx) ==
    [i \in 1..(Len(positions) - 1) |-> IF i < idx THEN positions[i] ELSE positions[i + 1]]

\* allTx.filter(t => norm(t.code) === txCode && t.type === "achat").sort(by date)[0]?.date || date
ImportPurchaseDate(allTx, txCode, date) ==
    LET buys == { t \in allTx : NormCode(t.code) = txCode /\ t.type = "achat" }
    IN  IF buys = {} THEN date
        ELSE (CHOOSE t \in buys : \A u \in buys : getTime(t.date) <= getTime(u.date)).date

\* One pass of the for loop over allTx / positions / closedPositions.
ImportStep(acc, tx, pid) ==
    LET allTx  == acc.allTx \cup {tx}
        txCode == NormCode(tx.code)
        idx    == findIndex(acc.positions, txCode)
        acc1   == [acc EXCEPT !.allTx = allTx]
    IN  IF tx.type = "achat"
        THEN IF idx >= 1
             THEN LET pos          == acc.positions[idx]
                      newTotalCost == Plus(pos.totalCost, Num(PurchaseTotalCost(tx)))
                      newQuantity  == pos.quantity + tx.quantity
                  IN  [acc1 EXCEPT !.positions[idx] =
                          [pos EXCEPT !.quantity = newQuantity, !.totalCost = newTotalCost,
                                      !.pru = Div(newTotalCost, Num(newQuantity))]]
             ELSE [acc1 EXCEPT !.positions = Append(@, PurchaseOpen(tx, pid))]
        ELSE IF tx.type = "vente"
        THEN IF idx < 1 THEN acc1
             ELSE IF acc.positions[idx].quantity < tx.quantity THEN acc1
             ELSE LET pos          == acc.positions[idx]
                      totalSale    == SaleTotalSale(tx)
                      purchaseDate == ImportPurchaseDate(allTx, txCode, tx.date)
                      closed       == ClosedRecord(pos, tx, totalSale, purchaseDate, 0, pid)
                      newQuantity  == pos.quantity - tx.quantity
                  IN  [acc1 EXCEPT
                          !.closedPositions = @ (+) SetToBag({closed}),
                          !.positions =
                              IF newQuantity = 0 THEN splice(@, idx)
                              ELSE [@ EXCEPT ![idx] =
                                      [pos EXCEPT !.quantity = newQuantity,
                                                  !.totalCost = Minus(@, closed.totalPurchase)]]]
        ELSE acc1

\* The for loop over newTxs, the rows with their ids.
RECURSIVE ImportFrom(_, _, _)
ImportFrom(acc, newTxs, pid) ==
    IF newTxs = <<>> THEN acc
    ELSE ImportFrom(ImportStep(acc, Head(newTxs), pid), Tail(newTxs), pid)

\* { ...tx, id: crypto.randomUUID(), portfolioId: targetPortfolioId } for each row
WithIds(transactions, pid, firstId) ==
    [i \in DOMAIN transactions |->
        [id |-> firstId + i - 1, portfolioId |-> pid] @@ transactions[i]]

\* allTx / positions / closedPositions after the loop, from the store's rows
\* and the array existingPos of its positions.
Import(d, existingPos, transactions, pid, firstId) ==
    ImportFrom([allTx |-> { t \in d.transactions : t.portfolioId = pid },
                positions |-> existingPos,
                closedPositions |-> ClosedOf(d.closed_positions, pid)],
               WithIds(transactions, pid, firstId), pid)

\* The store after handleImportTransactions wrote the result r of its loop.
ImportStore(d, r, pid) ==
    bulkAddClosedPositions(
        bulkUpsertPositions(
            bulkAddTransactions(
                deleteClosedPositionsByPortfolio(
                    deletePositionsByPortfolio(
                        deleteTransactionsByPortfolio(d, pid), pid), pid),
                r.allTx),
            { r.positions[i] : i \in DOMAIN r.positions }),
        r.closedPositions)

handleImportTransactions(transactions) ==
    /\ currentPortfolioId # Null
    /\ currentPortfolioId # ALL
    /\ \E existingPos \in ArraysOf({ p \in db.positions : p.portfolioId = currentPortfolioId }) :
          /\ db' = ImportStore(db, Import(db, existingPos, transactions,
                                          currentPortfolioId, nextId),
                               currentPortfolioId)
          /\ refreshData(db')
    /\ nextId' = nextId + Len(transactions)
    /\ last' = [op |-> "importTransactions", transactions |-> transactions]
    /\ addOnly' = FALSE
    /\ UNCHANGED <<currentPortfolioId, nEdits>>

\* The rows of an imported file, and the files of n rows as ImportTransactions'
\* handleImport hands them over: sorted by date, buys first among equal dates.
ImportInputs == { ImportRow(t) : t \in { u \in BuyInputs \cup SellInputs : u.conversionRate = 1 } }
ImportFiles(n) ==
    { f \in [1..n -> ImportInputs] :
        \A i, j \in 1..n : i < j =>
            \/ getTime(f[i].date) < getTime(f[j].date)
            \/ /\ getTime(f[i].date) = getTime(f[j].date)
               /\ ~(f[i].type # "achat" /\ f[j].type = "achat") }

Next ==
    \/ /\ nextId <= MaxTx
       /\ \E transaction \in TxInputs : handleAddTransaction(FormSubmit(transaction), Null)
       /\ UNCHANGED others
    \/ /\ nextId <= MaxTx
       /\ \E amount \in Amounts, type \in {"deposit", "withdrawal"} :
             handleUpdateCash(amount, type, 1)
       /\ UNCHANGED others
    \/ /\ \E t \in DataOf(currentPortfolioId).transactions : handleDeleteTransaction(t.id)
       /\ UNCHANGED others
    \/ /\ \E n \in 1..MaxImport :
             /\ nextId + n - 1 <= MaxTx
             /\ \E transactions \in ImportFiles(n) : handleImportTransactions(transactions)
       /\ UNCHANGED others

Spec == Init /\ [][Next]_vars

(***************************************************************************)
(* EditTransactionDialog / TransactionHistory.                             *)
(***************************************************************************)
\* The patch save() sends for the form, applied to the stored row t.
EditPatch(t, form) ==
    [t EXCEPT !.date = form.date,
              !.code = toUpperCase(form.code),
              !.type = form.type,
              !.quantity = OrElse(form.quantity, 0),
              !.unitPrice = OrElse(form.unitPrice, 0),
              !.fees = OrElse(form.fees, 0),
              !.tff = OrElse(form.tff, 0),
              !.conversionRate = OrElse(form.conversionRate, 1),
              !.tax = IF form.type = "dividende" THEN form.tax ELSE 0]

\* save(): the update of the transactions row either fails (the error is
\* shown, nothing changes) or succeeds; onSaved then replaces the row in
\* TransactionHistory's local list.  Nothing else is written or reloaded.
EditTransactionSave(form, ok) ==
    /\ nEdits < MaxEdits
    /\ IF ok
       THEN /\ db' = [db EXCEPT !.transactions =
                        { IF t.id = form.id THEN EditPatch(t, form) ELSE t : t \in @ }]
            /\ localTransactions' =
                  { IF t.id = form.id THEN EditPatch(t, form) ELSE t : t \in localTransactions }
       ELSE UNCHANGED <<db, localTransactions>>
    /\ nEdits' = nEdits + 1
    /\ last' = [op |-> "editTransaction", id |-> form.id, saved |-> ok]
    /\ addOnly' = FALSE
    /\ UNCHANGED <<portfolios, portfolioData, currentPortfolioId, nextId>>

\* What the user may turn the row t into before saving.
EditForms(t) ==
    { [t EXCEPT !.date = d, !.type = ty, !.quantity = q, !.unitPrice = p] :
        d \in Dates, ty \in {"achat", "vente"}, q \in Quantities, p \in {3, 4} } \ {t}

\* The trades entered in the runs that edit: the one code typed with a trailing space.
EditSpecInputs ==
    { t \in BuyInputs \cup SellInputs : t.conversionRate = 1 /\ trim(t.code) # t.code }

NextEdit ==
    \/ /\ nextId <= MaxTx
       /\ \E transaction \in EditSpecInputs : handleAddTransaction(FormSubmit(transaction), Null)
       /\ UNCHANGED others
    \/ /\ \E t \in { u \in localTransactions : u.type \in {"achat", "vente"} } :
             \E form \in EditForms(t), ok \in BOOLEAN : EditTransactionSave(form, ok)
       /\ UNCHANGED others
    \/ /\ \E t \in DataOf(currentPortfolioId).transactions : handleDeleteTransaction(t.id)
       /\ UNCHANGED others

SpecEdit == Init /\ [][NextEdit]_vars


(***************************************************************************)
(* The recomputation of handleDeleteTransaction, run twice on one list.    *)
(***************************************************************************)
\* sorted with t put after every element whose date is not later: one step
\* of a stable sort by date.
RECURSIVE InsertByDate(_, _)
InsertByDate(sorted, t) ==
    IF sorted # <<>> /\ getTime(sorted[Len(sorted)].date) > getTime(t.date)
    THEN Append(InsertByDate(SubSeq(sorted, 1, Len(sorted) - 1), t), sorted[Len(sorted)])
    ELSE Append(sorted, t)

RECURSIVE SortFrom(_, _)
SortFrom(sorted, rest) ==
    IF rest = <<>> THEN sorted ELSE SortFrom(InsertByDate(sorted, Head(rest)), Tail(rest))

\* A slip: a sort that orders the transactions of equal dates freely.
SortOutcomes_Unstable(list) == DateSorted({ list[i] : i \in DOMAIN list })

\* .sort((a, b) => new Date(a.date).getTime() - new Date(b.date).getTime()):
\* Array.prototype.sort is stable, so one list has one sorted list.
SortOutcomes(list) == { SortFrom(<<>>, list) }

\* The rows a recomputation r inserts, each to receive an id.
ReplayRows(r) ==
    { <<"position", p, 1>> : p \in r.positions }
      \cup { <<"closed", x[1], x[2]>> :
               x \in { y \in (DOMAIN r.closedPositions) \X (1..MaxTx) :
                         y[2] <= r.closedPositions[y[1]] } }

\* id: crypto.randomUUID() for each row: any identifiers, no two alike.
ReplayIds(r) ==
    { f \in [ReplayRows(r) -> 1..MaxUuid] :
        \A x, y \in ReplayRows(r) : x # y => f[x] # f[y] }

\* newPositions and newClosedPositions, with their ids, as one run of the
\* recomputation may leave them for the list of transactions.
ReplayRuns(list, pid) ==
    UNION { { [r |-> Replay(sorted, { list[i] : i \in DOMAIN list }, pid), ids |-> f] :
                f \in ReplayIds(Replay(sorted, { list[i] : i \in DOMAIN list }, pid)) } :
            sorted \in SortOutcomes(SelectSeq(list, LAMBDA t : t.type \in {"achat", "vente"})) }

\* The recomputation run twice on currentData.transactions, the
\* transactions as the store returned them.
ReplayTwice ==
    /\ currentPortfolioId # Null
    /\ currentPortfolioId # ALL
    /\ \E list \in DateSorted(DataOf(currentPortfolioId).transactions) :
          \E first, second \in ReplayRuns(list, currentPortfolioId) :
              last' = [op |-> "replayTwice", list |-> list, first |-> first, second |-> second]
    /\ UNCHANGED <<db, portfolios, portfolioData, currentPortfolioId, localTransactions,
                   nextId, nEdits, addOnly>>

\* The trades handed to the recomputation.
ReplayInputs ==
    { t \in BuyInputs \cup SellInputs : t.code = <<"a", "a", "p", "l">> /\ t.conversionRate = 1 }

NextReplay ==
    \/ /\ nextId <= MaxTx
       /\ \E transaction \in ReplayInputs : handleAddTransaction(FormSubmit(transaction), Null)
       /\ UNCHANGED others
    \/ ReplayTwice /\ UNCHANGED others

SpecReplay == Init /\ [][NextReplay]_vars

(***************************************************************************)
(* Store writes that fail, and utils/backup importDatabase.                *)
(***************************************************************************)
createPortfolio(d, portfolio) == [d EXCEPT !.portfolios = Append(@, portfolio)]

deletePortfolio(d, id) ==
    [d EXCEPT !.portfolios = SelectSeq(@, LAMBDA p : p.id # id)]

\* upsert({ key, value })
setSetting(d, key, value) ==
    [d EXCEPT !.settings = { x \in @ : x.key # key } \cup { [key |-> key, value |-> value] }]

\* getSetting('currentPortfolioId'), null when there is no such row.
getCurrentPortfolioId(d) ==
    IF \E x \in d.settings : x.key = "currentPortfolioId"
    THEN (CHOOSE x \in d.settings : x.key = "currentPortfolioId").value
    ELSE Null

\* One awaited write of db.ts, as a record, and the store after it.
Write(op, arg) == [op |-> op, arg |-> arg]

ApplyWrite(d, w) ==
    CASE w.op = "deleteTransaction"                -> deleteTransaction(d, w.arg)
      [] w.op = "deleteTransactionsByPortfolio"    -> deleteTransactionsByPortfolio(d, w.arg)
      [] w.op = "deletePositionsByPortfolio"       -> deletePositionsByPortfolio(d, w.arg)
      [] w.op = "deleteClosedPositionsByPortfolio" -> deleteClosedPositionsByPortfolio(d, w.arg)
      [] w.op = "deletePortfolio"                  -> deletePortfolio(d, w.arg)
      [] w.op = "createPortfolio"                  -> createPortfolio(d, w.arg)
      [] w.op = "bulkAddTransactions"              -> bulkAddTransactions(d, w.arg)
      [] w.op = "bulkUpsertPositions"              -> bulkUpsertPositions(d, w.arg)
      [] w.op = "bulkAddClosedPositions"           -> bulkAddClosedPositions(d, w.arg)
      [] w.op = "setSetting"                       -> setSetting(d, w.arg.key, w.arg.value)
      [] w.op = "addTransaction"                   -> addTransaction(d, w.arg)
      [] w.op = "updatePortfolio"                  -> updatePortfolio(d, w.arg.id, w.arg.cash)
      [] w.op = "upsertPosition"                   -> upsertPosition(d, w.arg)
      [] w.op = "deletePosition"                   -> deletePosition(d, w.arg.portfolioId, w.arg.code)
      [] w.op = "addClosedPosition"                -> addClosedPosition(d, w.arg)

\* The store after the first n writes of ws: the write after them threw, or
\* there is none.
RECURSIVE ApplyWrites(_, _, _)
ApplyWrites(d, ws, n) ==
    IF n = 0 THEN d ELSE ApplyWrite(ApplyWrites(d, ws, n - 1), ws[n])

\* The awaited writes of handleDeleteTransaction, in order.
DeleteTransactionWrites(id, r, pid) ==
    << Write("deleteTransaction", id),
       Write("deletePositionsByPortfolio", pid),
       Write("deleteClosedPositionsByPortfolio", pid),
       Write("bulkUpsertPositions", r.positions),
       Write("bulkAddClosedPositions", r.closedPositions) >>

\* handleDeleteTransaction when the write after the first n throws: the
\* handler is left there, refreshData is not reached.
handleDeleteTransactionFailing(id, n) ==
    /\ currentPortfolioId # Null
    /\ currentPortfolioId # ALL
    /\ nFaults < MaxFaults
    /\ LET updatedTransactions == { t \in DataOf(currentPortfolioId).transactions : t.id # id }
       IN  \E r \in ReplayOutcomes(updatedTransactions, currentPortfolioId) :
              LET ws == DeleteTransactionWrites(id, r, currentPortfolioId)
              IN  /\ n < Len(ws)
                  /\ db' = ApplyWrites(db, ws, n)
                  /\ last' = [op |-> "deleteTransactionFailing", pid |-> currentPortfolioId,
                              done |-> n, old |-> db,
                              new |-> ApplyWrites(db, ws, Len(ws))]
    /\ nFaults' = nFaults + 1
    /\ addOnly' = FALSE
    /\ UNCHANGED <<portfolios, portfolioData, localTransactions, currentPortfolioId,
                   nextId, nEdits>>

\* The awaited writes of handleImportTransactions, in order.
ImportWrites(r, pid) ==
    << Write("deleteTransactionsByPortfolio", pid),
       Write("deletePositionsByPortfolio", pid),
       Write("deleteClosedPositionsByPortfolio", pid),
       Write("bulkAddTransactions", r.allTx),
       Write("bulkUpsertPositions", { r.positions[i] : i \in DOMAIN r.positions }),
       Write("bulkAddClosedPositions", r.closedPositions) >>

\* handleImportTransactions when the write after the first n throws.
handleImportTransactionsFailing(transactions, n) ==
    /\ currentPortfolioId # Null
    /\ currentPortfolioId # ALL
    /\ nFaults < MaxFaults
    /\ \E existingPos \in ArraysOf({ p \in db.positions : p.portfolioId = currentPortfolioId }) :
          LET ws == ImportWrites(Import(db, existingPos, transactions,
                                        currentPortfolioId, nextId),
                                 currentPortfolioId)
          IN  /\ n < Len(ws)
              /\ db' = ApplyWrites(db, ws, n)
              /\ last' = [op |-> "importTransactionsFailing", pid |-> currentPortfolioId,
                          done |-> n, old |-> db, new |-> ApplyWrites(db, ws, Len(ws))]
    /\ nextId' = nextId + Len(transactions)
    /\ nFaults' = nFaults + 1
    /\ addOnly' = FALSE
    /\ UNCHANGED <<portfolios, portfolioData, localTransactions, currentPortfolioId, nEdits>>

\* Array.isArray(data[field]) for a parsed backup file: data.arrays holds the
\* names of the fields that are arrays in the file.
isArray(data, field) == field \in data.arrays

isValidBackup(data) ==
    /\ isArray(data, "portfolios")
    /\ isArray(data, "transactions")
    /\ isArray(data, "positions")
    /\ isArray(data, "closedPositions")

\* importDatabase once the file is accepted: its awaited writes, in order, on
\* the store d.
RECURSIVE DeleteAllWrites(_)
DeleteAllWrites(existingPortfolios) ==
    IF existingPortfolios = <<>> THEN <<>>
    ELSE LET p == Head(existingPortfolios)
         IN  << Write("deleteTransactionsByPortfolio", p.id),
                Write("deletePositionsByPortfolio", p.id),
                Write("deleteClosedPositionsByPortfolio", p.id),
                Write("deletePortfolio", p.id) >>
             \o DeleteAllWrites(Tail(existingPortfolios))

ImportDatabaseWrites(d, data) ==
    DeleteAllWrites(d.portfolios)
    \o [i \in DOMAIN data.portfolios |-> Write("createPortfolio", data.portfolios[i])]
    \o (IF data.transactions # {} THEN << Write("bulkAddTransactions", data.transactions) >>
        ELSE <<>>)
    \o (IF data.positions # {} THEN << Write("bulkUpsertPositions", data.positions) >>
        ELSE <<>>)
    \o (IF data.closedPositions # EmptyBag
        THEN << Write("bulkAddClosedPositions", data.closedPositions) >> ELSE <<>>)
    \o (IF isArray(data, "settings")
        THEN LET rows == CHOOSE q \in ArraysOf({ x \in data.settings : x.key # "" /\ x.value # "" }) : TRUE
             IN  [i \in DOMAIN rows |-> Write("setSetting", rows[i])]
        ELSE <<>>)

\* importDatabase throws before any write.
ImportDatabaseRejected(data) ==
    \/ ~isValidBackup(data)
    \/ data.portfolios = <<>>

\* init() of PortfolioLayout on a store that holds a portfolio: the portfolio
\* made current, and the store once it is saved.
InitCurrent(d) ==
    LET savedCurrentId == getCurrentPortfolioId(d)
    IN  IF savedCurrentId # Null /\ savedCurrentId \in PortfolioIdsOf(d.portfolios)
        THEN savedCurrentId
        ELSE d.portfolios[1].id

InitStore(d) ==
    IF InitCurrent(d) = getCurrentPortfolioId(d) THEN d
    ELSE setSetting(d, "currentPortfolioId", InitCurrent(d))

\* PortfolioLayout's handleImport on a parsed file: importDatabase(data), and
\* when it returns, the page is reloaded.  n writes succeed; with n short of
\* the writes to do, the next one throws and the catch block only alerts.
handleImport(data, n) ==
    /\ IF ImportDatabaseRejected(data)
       THEN /\ n = 0
            /\ UNCHANGED <<db, portfolios, portfolioData, localTransactions,
                           currentPortfolioId, nFaults>>
            /\ last' = [op |-> "importDatabase", data |-> data, rejected |-> TRUE,
                        done |-> 0, of |-> 0, old |-> db, new |-> db]
       ELSE LET ws == ImportDatabaseWrites(db, data)
                d1 == ApplyWrites(db, ws, n)
            IN  /\ n <= Len(ws)
                /\ last' = [op |-> "importDatabase", data |-> data, rejected |-> FALSE,
                            done |-> n, of |-> Len(ws), old |-> db,
                            new |-> ApplyWrites(db, ws, Len(ws))]
                /\ IF n = Len(ws)
                   THEN /\ db' = InitStore(d1)
                        /\ portfolios' = d1.portfolios
                        /\ portfolioData' = PortfolioDataOf(d1)
                        /\ currentPortfolioId' = InitCurrent(d1)
                        /\ localTransactions' = PortfolioDataOf(d1)[InitCurrent(d1)].transactions
                        /\ UNCHANGED nFaults
                   ELSE /\ nFaults < MaxFaults
                        /\ db' = d1
                        /\ nFaults' = nFaults + 1
                        /\ UNCHANGED <<portfolios, portfolioData, localTransactions,
                                       currentPortfolioId>>
    /\ addOnly' = FALSE
    /\ UNCHANGED <<nextId, nEdits>>

\* The files: at most one of the five fields is not an array; portfolios, when
\* an array, is empty or holds the portfolio "b1", the other arrays hold one
\* row of "b1" (closedPositions: none).
BackupPortfolio == [id |-> "b1", name |-> "PEA", code |-> Null, cash |-> 2]

BackupTransaction ==
    [id |-> 0, portfolioId |-> "b1"] @@ Tx("achat", <<"A", "A", "P", "L">>, 1, 1, 3, Domestic, 0)

BackupPosition ==
    [portfolioId |-> "b1", code |-> <<"A", "A", "P", "L">>, quantity |-> 1,
     totalCost |-> Num(3), pru |-> Num(3), stopLoss |-> Unset, manualCurrentPrice |-> Unset]

BackupArrays == {"portfolios", "transactions", "positions", "closedPositions", "settings"}

BackupFile(arrays, ps) ==
    [arrays          |-> arrays,
     portfolios      |-> IF "portfolios" \in arrays THEN ps ELSE <<>>,
     transactions    |-> IF "transactions" \in arrays THEN {BackupTransaction} ELSE {},
     positions       |-> IF "positions" \in arrays THEN {BackupPosition} ELSE {},
     closedPositions |-> EmptyBag,
     settings        |-> IF "settings" \in arrays
                         THEN { [key |-> "currentPortfolioId", value |-> "b1"] } ELSE {}]

BackupFiles ==
    { BackupFile(arrays, ps) :
        arrays \in { a \in SUBSET BackupArrays : Cardinality(a) >= 4 },
        ps \in {<<>>, <<BackupPortfolio>>} }

\* Trades of one code, for the histories the failing writes act on.
FaultInputs ==
    { t \in BuyInputs \cup SellInputs :
        /\ t.code = <<"a", "a", "p", "l">>
        /\ t.conversionRate = 1 /\ t.fees = 0 /\ t.date = 1
        /\ (t.type = "vente" => t.quantity = 1) }


\* The behaviours stop at the first write that fails (MaxFaults).
NextFault ==
    \/ /\ nextId <= MaxTx
       /\ nFaults < MaxFaults
       /\ \E transaction \in FaultInputs : handleAddTransaction(FormSubmit(transaction), Null)
       /\ UNCHANGED others
    \/ /\ \E t \in DataOf(currentPortfolioId).transactions, n \in 0..MaxWrites :
             handleDeleteTransactionFailing(t.id, n)
       /\ UNCHANGED <<calls, quoteVars>>
    \/ /\ \E n \in 0..MaxWrites :
             /\ nextId <= MaxTx
             /\ \E transactions \in ImportFiles(1) :
                   handleImportTransactionsFailing(transactions, n)
       /\ UNCHANGED <<calls, quoteVars>>
    \/ /\ nFaults < MaxFaults
       /\ \E data \in BackupFiles, n \in 0..MaxWrites : handleImport(data, n)
       /\ UNCHANGED <<calls, quoteVars>>

SpecFault == Init /\ [][NextFault]_vars

(***************************************************************************)
(* Several portfolios, the consolidated view, stop loss and manual price.  *)
(***************************************************************************)
\* The id crypto.randomUUID() gives the n-th portfolio.
PortfolioId(n) == IF n = 1 THEN DefaultPortfolioId ELSE IF n = 2 THEN "p2" ELSE "p3"

\* setCurrentPortfolioId: the state is set, the id saved in the settings.
setCurrentPortfolioId(id) ==
    /\ currentPortfolioId' = id
    /\ db' = setSetting(db, "currentPortfolioId", id)
    /\ localTransactions' = IF id = ALL THEN db.transactions ELSE DataOf(id).transactions
    /\ last' = [op |-> "setCurrentPortfolioId", id |-> id]
    /\ UNCHANGED <<portfolios, portfolioData, nextId, nEdits, addOnly>>

\* crypto.randomUUID() for a new portfolio: the first id no stored portfolio has
\* (the n-th id for the n-th portfolio as long as none was deleted).
FreshPortfolioId(d) ==
    PortfolioId(CHOOSE n \in 1..(Len(d.portfolios) + 1) :
                  /\ PortfolioId(n) \notin PortfolioIdsOf(d.portfolios)
                  /\ \A m \in 1..(n - 1) : PortfolioId(m) \in PortfolioIdsOf(d.portfolios))

handleCreatePortfolio(portfolio) ==
    LET newPortfolio == [id |-> FreshPortfolioId(db), name |-> portfolio.name,
                         code |-> portfolio.code, cash |-> 0]
        d1 == createPortfolio(db, newPortfolio)
    IN  /\ db' = setSetting(d1, "currentPortfolioId", newPortfolio.id)
        /\ portfolios' = d1.portfolios
        /\ portfolioData' = PortfolioDataOf(d1)
        /\ currentPortfolioId' = newPortfolio.id
        /\ localTransactions' = {}
        /\ last' = [op |-> "createPortfolio", id |-> newPortfolio.id]
        /\ UNCHANGED <<nextId, nEdits, addOnly>>

\* A slip: the row is not given the portfolio's id.
ConsolidatedRow_NoPortfolioId(p, portfolio) ==
    [portfolioCode |-> IF portfolio.code # Null THEN portfolio.code ELSE portfolio.name,
     portfolioId |-> Null]
    @@ [f \in (DOMAIN p) \ {"portfolioId"} |-> p[f]]

\* { ...p, portfolioCode: id, portfolioId: portfolio.id } on a position as
\* refreshData keeps it, that is without its portfolioId.
ConsolidatedRow(p, portfolio) ==
    [portfolioCode |-> IF portfolio.code # Null THEN portfolio.code ELSE portfolio.name,
     portfolioId |-> portfolio.id]
    @@ [f \in (DOMAIN p) \ {"portfolioId"} |-> p[f]]

\* currentData.positions for "ALL": the rows pushed portfolio after portfolio.
RECURSIVE AllPos(_, _)
AllPos(ps, data) ==
    IF ps = <<>> THEN <<>>
    ELSE LET portfolio == Head(ps)
             rows == IF portfolio.id \in DOMAIN data
                     THEN CHOOSE q \in ArraysOf(data[portfolio.id].positions) : TRUE
                     ELSE <<>>
         IN  [i \in DOMAIN rows |-> ConsolidatedRow(rows[i], portfolio)]
             \o AllPos(Tail(ps), data)

currentDataPositions ==
    IF currentPortfolioId = Null THEN <<>>
    ELSE IF currentPortfolioId = ALL THEN AllPos(portfolios, portfolioData)
    ELSE CHOOSE q \in ArraysOf(DataOf(currentPortfolioId).positions) : TRUE

\* The portfolios handleUpdateStopLoss and handleUpdateCurrentPrice go through.
UpdatePortfolioIds ==
    IF currentPortfolioId = ALL THEN PortfolioIdsOf(portfolios) ELSE {currentPortfolioId}

\* The positions they find: portfolioData[pid]?.positions.find(p => p.code === code).
UpdateFound(code) ==
    { pos \in UNION { DataOf(pid).positions : pid \in UpdatePortfolioIds } : pos.code = code }

\* A slip: the manual price is not carried over.
StopLossRow_PriceDropped(pos, stopLoss) ==
    [pos EXCEPT !.stopLoss = stopLoss, !.manualCurrentPrice = Unset]

\* The rows they upsert.
StopLossRow(pos, stopLoss) == [pos EXCEPT !.stopLoss = stopLoss]

CurrentPriceRow(pos, manualCurrentPrice) == [pos EXCEPT !.manualCurrentPrice = manualCurrentPrice]

handleUpdateStopLoss(code, stopLoss) ==
    /\ currentPortfolioId # Null
    /\ db' = bulkUpsertPositions(db, { StopLossRow(pos, stopLoss) : pos \in UpdateFound(code) })
    /\ refreshData(db')
    /\ last' = [op |-> "updateStopLoss", code |-> code, value |-> stopLoss]
    /\ UNCHANGED <<currentPortfolioId, nextId, nEdits, addOnly>>

handleUpdateCurrentPrice(code, manualCurrentPrice) ==
    /\ currentPortfolioId # Null
    /\ db' = bulkUpsertPositions(db, { CurrentPriceRow(pos, manualCurrentPrice) :
                                        pos \in UpdateFound(code) })
    /\ refreshData(db')
    /\ last' = [op |-> "updateCurrentPrice", code |-> code, value |-> manualCurrentPrice]
    /\ UNCHANGED <<currentPortfolioId, nextId, nEdits, addOnly>>

\* The portfolios the user creates, and the buys of the form.
PortfolioInputs ==
    { [name |-> "Mon portefeuille principal", code |-> Null], [name |-> "PEA", code |-> "PEA"] }

AllInputs ==
    { t \in BuyInputs :
        /\ t.code = <<"a", "a", "p", "l">> \/ t.quantity = 1
        /\ t.conversionRate = 1 /\ t.date = 1 }

\* The codes of the rows CurrentPositions shows.
ShownCodes == { currentDataPositions[i].code : i \in DOMAIN currentDataPositions }

NextAll ==
    \/ /\ Len(db.portfolios) < MaxPortfolios
       /\ \E portfolio \in PortfolioInputs : handleCreatePortfolio(portfolio)
       /\ UNCHANGED others
    \/ /\ \E id \in PortfolioIdsOf(portfolios) \cup {ALL} : setCurrentPortfolioId(id)
       /\ UNCHANGED others
    \/ /\ nextId <= MaxTx
       /\ \E transaction \in AllInputs, selectedPortfolio \in PortfolioIdsOf(portfolios) :
             handleAddTransaction(FormSubmit(transaction), selectedPortfolio)
       /\ UNCHANGED others
    \/ /\ \E code \in ShownCodes, stopLoss \in {Unset, Value(1)} : handleUpdateStopLoss(code, stopLoss)
       /\ UNCHANGED others
    \/ /\ \E code \in ShownCodes, manualCurrentPrice \in {Unset, Value(2)} :
             handleUpdateCurrentPrice(code, manualCurrentPrice)
       /\ UNCHANGED others

SpecAll == Init /\ [][NextAll]_vars

(***************************************************************************)
(* TransactionsPage: handleImportTransactions calls handleAddTransaction   *)
(* for each row and awaits none of the calls.                              *)
(***************************************************************************)
\* The awaited writes of one handleAddTransaction call, in order, as the
\* React state (ps, data) of the render that made the call determines them.
AddTransactionWrites(ps, data, tx, pid) ==
    LET first == << Write("addTransaction", tx) >>
        cash(delta) ==
            IF pid \in PortfolioIdsOf(ps)
            THEN << Write("updatePortfolio",
                          [id |-> pid, cash |-> OrElse(FindPortfolio(ps, pid).cash, 0) + delta]) >>
            ELSE <<>>
        newTransactions == data.transactions \cup {tx}
    IN  CASE tx.type = "achat" ->
               { first \o cash(0 - PurchaseTotalCost(tx)) \o << Write("upsertPosition", row) >> :
                   row \in IF PurchaseExisting(data, tx) # {}
                           THEN { PurchaseMerge(existing, tx, pid) :
                                    existing \in PurchaseExisting(data, tx) }
                           ELSE { PurchaseOpen(tx, pid) } }
          [] tx.type = "vente" ->
               IF SaleRejected(data, tx) THEN { first }
               ELSE LET existing     == CHOOSE p \in SaleExisting(data, tx) : TRUE
                        totalSale    == SaleTotalSale(tx)
                        purchaseDate == PurchaseDate(newTransactions, tx.code, tx.date)
                        dividends    == HoldingDividends(newTransactions, tx.code,
                                                         purchaseDate, tx.date)
                    IN  { first \o cash(totalSale)
                          \o << Write("addClosedPosition",
                                      ClosedRecord(existing, tx, totalSale, purchaseDate,
                                                   dividends, pid)),
                                IF existing.quantity - tx.quantity = 0
                                THEN Write("deletePosition", [portfolioId |-> pid, code |-> tx.code])
                                ELSE Write("upsertPosition", SaleRemainder(existing, tx, pid)) >> }
          [] tx.type = "dividende" -> { first \o cash(dividendAmount(tx)) }
          [] OTHER -> { first }

\* A call has done its writes and its refreshData.
CallEnded(call) == call.done = Len(call.ws) + 1

\* transactions.forEach(transaction => { handleAddTransaction(transaction); }):
\* every call is started in the same render, none is awaited.
TransactionsPageImport(transactions) ==
    LET pid == currentPortfolioId
        newTx(i) == [id |-> nextId + i - 1, portfolioId |-> pid] @@ transactions[i]
    IN  /\ pid # Null
        /\ \A i \in DOMAIN calls : CallEnded(calls[i])
        /\ \E started \in [DOMAIN transactions ->
                             UNION { AddTransactionWrites(portfolios, DataOf(pid), newTx(i), pid) :
                                       i \in DOMAIN transactions }] :
              /\ \A i \in DOMAIN transactions :
                    started[i] \in AddTransactionWrites(portfolios, DataOf(pid), newTx(i), pid)
              /\ calls' = [i \in DOMAIN transactions |-> [ws |-> started[i], done |-> 0]]
        /\ nextId' = nextId + Len(transactions)
        /\ last' = [op |-> "pageImport", pid |-> pid, old |-> db,
                    history |-> [i \in DOMAIN transactions |-> newTx(i)]]
        /\ addOnly' = FALSE
        /\ UNCHANGED <<db, portfolios, portfolioData, currentPortfolioId, localTransactions,
                       nEdits, nFaults>>

\* The store answers the request a call is waiting for; the call goes on to
\* its next await.
CallWrite(i) ==
    /\ calls[i].done < Len(calls[i].ws)
    /\ db' = ApplyWrite(db, calls[i].ws[calls[i].done + 1])
    /\ calls' = [calls EXCEPT ![i].done = @ + 1]
    /\ UNCHANGED <<portfolios, portfolioData, currentPortfolioId, localTransactions,
                   nextId, nEdits, addOnly, last, nFaults>>

\* await refreshData() at the end of a call.
CallRefresh(i) ==
    /\ calls[i].done = Len(calls[i].ws)
    /\ refreshData(db)
    /\ calls' = [calls EXCEPT ![i].done = @ + 1]
    /\ UNCHANGED <<db, currentPortfolioId, nextId, nEdits, addOnly, last, nFaults>>

NextPage ==
    \/ /\ \E n \in 1..MaxImport :
             /\ nextId + n - 1 <= MaxTx
             /\ \E transactions \in ImportFiles(n) : TransactionsPageImport(transactions)
       /\ UNCHANGED quoteVars
    \/ /\ \E i \in DOMAIN calls : CallWrite(i)
       /\ UNCHANGED quoteVars
    \/ /\ \E i \in DOMAIN calls : CallRefresh(i)
       /\ UNCHANGED quoteVars

SpecPage == Init /\ [][NextPage]_vars

(***************************************************************************)
(* useQuotes.                                                              *)
(***************************************************************************)
\* The symbols of the hook (uniqSymbols(symbols)) and the prices /api/quotes
\* may give for one of them.
Symbols == {"AAPL", "MSFT"}
Prices == {1, 2}

layoutVars == <<db, portfolios, portfolioData, currentPortfolioId, localTransactions,
                nextId, nEdits, addOnly, last, nFaults, calls>>

\* refresh() up to its await: the controller of the refresh before is
\* aborted, which stops nothing because getQuotes is not given its signal; a
\* new controller is kept and the request sent.
refresh ==
    /\ Symbols # {}
    /\ abortRef < MaxRefresh
    /\ abortRef' = abortRef + 1
    /\ requests' = requests \cup {abortRef + 1}
    /\ loading' = TRUE
    /\ error' = Null
    /\ UNCHANGED <<quotesBySymbol, answers>>
    /\ UNCHANGED layoutVars

\* setQuotesBySymbol(prev => ({ ...prev, ...map }))
MergeQuotes(prev, map) == map @@ prev

\* getQuotes of refresh n resolves with the quotes map: refresh goes on after
\* its await.
refreshResolved(n, map) ==
    /\ n \in requests
    /\ requests' = requests \ {n}
    /\ quotesBySymbol' = MergeQuotes(quotesBySymbol, map)
    /\ answers' = (n :> map) @@ answers
    /\ loading' = FALSE
    /\ UNCHANGED <<error, abortRef>>
    /\ UNCHANGED layoutVars

\* getQuotes of refresh n throws: the quotes shown are kept.
refreshRejected(n) ==
    /\ n \in requests
    /\ requests' = requests \ {n}
    /\ error' = "Quotes API failed"
    /\ loading' = FALSE
    /\ UNCHANGED <<quotesBySymbol, abortRef, answers>>
    /\ UNCHANGED layoutVars

NextQuotes ==
    \/ refresh
    \/ \E n \in requests, map \in [Symbols -> Prices] : refreshResolved(n, map)
    \/ \E n \in requests : refreshRejected(n)

SpecQuotes == Init /\ [][NextQuotes]_vars

(***************************************************************************)
(* Deleting a portfolio, and the initialisation run at every page load.    *)
(***************************************************************************)
\* A slip: the pointer is left on the deleted portfolio.
DeletedCurrent_Kept(current, id, remaining) == current

\* handleDeletePortfolio's last lines: the current portfolio after deleting id.
DeletedCurrent(current, id, remaining) ==
    IF current = id
    THEN IF Len(remaining) > 0 THEN remaining[1].id ELSE Null
    ELSE current

handleDeletePortfolio(id) ==
    LET d1        == deletePortfolio(db, id)
        remaining == d1.portfolios
        current   == DeletedCurrent(currentPortfolioId, id, remaining)
    IN  /\ db' = IF currentPortfolioId = id /\ Len(remaining) > 0
                 THEN setSetting(d1, "currentPortfolioId", current)
                 ELSE d1
        /\ portfolios' = d1.portfolios
        /\ portfolioData' = PortfolioDataOf(d1)
        /\ currentPortfolioId' = current
        /\ localTransactions' =
              IF current = ALL THEN d1.transactions
              ELSE IF current \in PortfolioIdsOf(d1.portfolios)
              THEN PortfolioDataOf(d1)[current].transactions
              ELSE {}
        /\ last' = [op |-> "deletePortfolio", id |-> id, current |-> currentPortfolioId]
        /\ UNCHANGED <<nextId, nEdits, addOnly>>

\* The effect run when PortfolioLayout mounts (a page load): the React state
\* starts empty, the saved portfolio is taken when it exists, else the first
\* one, else a default portfolio is created.
init ==
    LET d1 == IF Len(db.portfolios) = 0
              THEN createPortfolio(db, [DefaultPortfolio EXCEPT !.id = FreshPortfolioId(db)])
              ELSE db
        d2 == InitStore(d1)
    IN  /\ db' = d2
        /\ portfolios' = d2.portfolios
        /\ portfolioData' = PortfolioDataOf(d2)
        /\ currentPortfolioId' = InitCurrent(d1)
        /\ localTransactions' = PortfolioDataOf(d2)[InitCurrent(d1)].transactions
        /\ last' = [op |-> "load", created |-> (Len(db.portfolios) = 0)]
        /\ UNCHANGED <<nextId, nEdits, addOnly>>

\* Portfolios stored at one time in this history.
MaxListed == 3

NextPortfolios ==
    \/ /\ Len(db.portfolios) < MaxListed
       /\ \E portfolio \in PortfolioInputs : handleCreatePortfolio(portfolio)
       /\ UNCHANGED others
    \/ /\ \E id \in PortfolioIdsOf(portfolios) \cup {ALL} : setCurrentPortfolioId(id)
       /\ UNCHANGED others
    \/ /\ \E id \in PortfolioIdsOf(portfolios) : handleDeletePortfolio(id)
       /\ UNCHANGED others
    \/ /\ init
       /\ UNCHANGED others

SpecPortfolios == Init /\ [][NextPortfolios]_vars

(***************************************************************************)
(* One code held over a longer history: buys, sells in either currency,    *)
(* stop loss, manual price and deletions.                                  *)
(***************************************************************************)
\* Transactions ever created in this history.
MaxHold == 4

HoldCode == <<"A", "A", "P", "L">>

HoldInputs ==
    { Tx("achat", HoldCode, d, 1, 3, Domestic, 0) : d \in Dates }
      \cup { Tx("achat", HoldCode, 1, 2, 3, Foreign, 0) }
      \cup { Tx("vente", HoldCode, d, 1, 3, Domestic, 0) : d \in Dates }
      \cup { Tx("vente", HoldCode, 2, 1, 3, Foreign, 0) }

NextHold ==
    \/ /\ nextId <= MaxHold
       /\ \E transaction \in HoldInputs : handleAddTransaction(FormSubmit(transaction), Null)
       /\ UNCHANGED others
    \/ /\ \E code \in ShownCodes : handleUpdateStopLoss(code, Value(1))
       /\ UNCHANGED others
    \/ /\ \E code \in ShownCodes : handleUpdateCurrentPrice(code, Value(2))
       /\ UNCHANGED others
    \/ /\ \E t \in DataOf(currentPortfolioId).transactions : handleDeleteTransaction(t.id)
       /\ UNCHANGED others

SpecHold == Init /\ [][NextHold]_vars

(***************************************************************************)
(* Properties.                                                             *)
(***************************************************************************)
\* The cash of portfolio pid in the store d.
CashOf(d, pid) == FindPortfolio(d.portfolios, pid).cash

\* The last handler was handleAddTransaction with a sale that handleSale
\* carried out: the store holds its ClosedPosition.
SaleJustDone ==
    /\ last.op = "addTransaction"
    /\ last.tx.type = "vente"
    /\ \E cp \in DOMAIN db.closed_positions :
          cp.code = last.tx.code /\ cp.saleDate = last.tx.date /\ cp.quantity = last.tx.quantity

\* C1: after any sequence of operations every stored open position has
\* pru = totalCost / quantity (a buy recomputes the average, a partial sale
\* lowers cost and quantity together and keeps pru).
C1_PruIsAverageCost ==
    \A p \in db.positions : p.pru = Div(p.totalCost, Num(p.quantity))

\* A partial sale has just been carried out on a position whose average
\* cost, after several buys, is not a whole number.
C1_Witness ==
    /\ SaleJustDone
    /\ \E p \in db.positions : p.code = last.tx.code /\ p.pru.den > 1

\* C2: a portfolio holds at most one open position per normalised
\* (trimmed, upper-cased) code.
C2_OnePositionPerCode ==
    \A p, q \in db.positions :
        (p.portfolioId = q.portfolioId /\ NormCode(p.code) = NormCode(q.code)) => p = q

C4_OversellWritesNothing ==
    [][(/\ last'.op = "addTransaction"
        /\ last'.tx.type = "vente"
        /\ \E p \in db.positions :
              /\ p.portfolioId = last'.tx.portfolioId
              /\ p.code = last'.tx.code
              /\ p.quantity < last'.tx.quantity)
       => db' = db]_vars

\* C5: a withdrawal of more than the current portfolio's cash changes
\* neither the cash nor the transactions (nor anything else in the store).
C5_WithdrawalRejected ==
    [][(/\ last'.op = "updateCash"
        /\ last'.type = "withdrawal"
        /\ last'.amount > CashOf(db, currentPortfolioId))
       => db' = db]_vars

\* A withdrawal of more than the cash at hand, which is positive, was asked
\* for and turned down.
C5_Witness ==
    /\ last.op = "updateCash"
    /\ last.type = "withdrawal"
    /\ last.rejected
    /\ CashOf(db, currentPortfolioId) > 0
    /\ last.amount > CashOf(db, currentPortfolioId)

\* The cash movement a stored transaction stands for.
CashDelta(t) ==
    CASE t.type = "achat"     -> 0 - PurchaseTotalCost(t)
      [] t.type = "vente"     -> SaleTotalSale(t)
      [] t.type = "dividende" -> dividendAmount(t)
      [] t.type = "depot"     -> t.quantity * t.unitPrice
      [] t.type = "retrait"   -> 0 - t.quantity * t.unitPrice

RECURSIVE SumCashDelta(_)
SumCashDelta(S) ==
    IF S = {} THEN 0
    ELSE LET t == CHOOSE y \in S : TRUE
         IN  CashDelta(t) + SumCashDelta(S \ {t})

\* C6: the cash of the portfolio, created with cash 0, is the sum of the
\* cash movements of the transactions stored for it, each counted once.
C6_CashIsLedgerSum ==
    CashOf(db, DefaultPortfolioId) =
        SumCashDelta({ t \in db.transactions : t.portfolioId = DefaultPortfolioId })

\* The transactions S in the order they were inserted (ids grow).
InIdOrder(S) ==
    CHOOSE seq \in [1..Cardinality(S) -> S] :
        \A i, j \in DOMAIN seq : i < j => seq[i].id < seq[j].id

\* The stores that handleAddTransaction may leave when the transactions of
\* history are submitted one after the other to the store d.
RECURSIVE Build(_, _, _)
Build(d, history, pid) ==
    IF history = <<>> THEN {d}
    ELSE UNION { Build(d2, Tail(history), pid) :
                   d2 \in AddTransactionOutcomes(d, d.portfolios, PortfolioDataOf(d)[pid],
                                                 Head(history), pid) }

\* The store of a portfolio just created with cash 0.
FreshStore ==
    [portfolios |-> << DefaultPortfolio >>, transactions |-> {},
     positions |-> {}, closed_positions |-> EmptyBag,
     settings |-> { [key |-> "currentPortfolioId", value |-> DefaultPortfolioId] }]

\* C7: when a buy or a sale t is deleted from a history built by
\* handleAddTransaction alone, the stored positions and closed positions are
\* those of building the history without t.
C7_DeleteIsNeverInserted ==
    (/\ last.op = "deleteTransaction"
     /\ last.addOnly
     /\ last.type \in {"achat", "vente"})
    => \E b \in Build(FreshStore, InIdOrder(db.transactions), DefaultPortfolioId) :
          /\ b.positions = db.positions
          /\ b.closed_positions = db.closed_positions

ImportReplay(sorted, pid) ==
    ImportFrom([allTx |-> {}, positions |-> <<>>, closedPositions |-> EmptyBag], sorted, pid)

\* C9: after handleImportTransactions the stored positions and closed
\* positions are those of a full replay, from an empty position set, over
\* the date-sorted union of the existing and the imported transactions
\* (replayed either by the recomputation of handleDeleteTransaction or by
\* the import's own loop body).
C9_ImportIsFullReplay ==
    last.op = "importTransactions" =>
        LET pid == currentPortfolioId
            txs == { t \in db.transactions : t.portfolioId = pid }
        IN  \/ \E r \in ReplayOutcomes(txs, pid) :
                  /\ r.positions = db.positions
                  /\ r.closedPositions = db.closed_positions
            \/ \E sorted \in DateSorted({ t \in txs : t.type \in {"achat", "vente"} }) :
                  LET r == ImportReplay(sorted, pid)
                  IN  /\ { r.positions[i] : i \in DOMAIN r.positions } = db.positions
                      /\ r.closedPositions = db.closed_positions

\* C10: after EditTransactionDialog saved a change of date, type, quantity
\* or unit price, the stored positions and closed positions are a replay of
\* the edited history.
C10_EditTriggersReplay ==
    (last.op = "editTransaction" /\ last.saved) =>
        \E r \in ReplayOutcomes({ t \in db.transactions : t.portfolioId = currentPortfolioId },
                                currentPortfolioId) :
            /\ r.positions = db.positions
            /\ r.closedPositions = db.closed_positions

\* C12: a sale of a code with no open position, submitted through
\* handleAddTransaction, is rejected: it is not added to the transactions
\* and nothing in the store changes.
C12_SellWithoutPositionRejected ==
    [][(/\ last'.op = "addTransaction"
        /\ last'.tx.type = "vente"
        /\ ~\E p \in db.positions :
              /\ p.portfolioId = last'.tx.portfolioId
              /\ NormCode(p.code) = NormCode(last'.tx.code))
       => db' = db]_vars

\* C15: a step that is neither a deletion with its recomputation nor an
\* import keeps every ClosedPosition record, and a sale that handleSale
\* carries out adds exactly one.
C15_ClosedAppendOnly ==
    [][(last'.op \notin {"deleteTransaction", "importTransactions"})
       => /\ db.closed_positions \sqsubseteq db'.closed_positions
          /\ (/\ last'.op = "addTransaction"
              /\ last'.tx.type = "vente"
              /\ ~SaleRejected(DataOf(last'.tx.portfolioId), last'.tx))
             => BagCardinality(db'.closed_positions)
                  = BagCardinality(db.closed_positions) + 1]_vars

\* A second sale has just been carried out: two closed records are stored.
C15_Witness ==
    /\ SaleJustDone
    /\ BagCardinality(db.closed_positions) >= 2

\* C16: after a buy of Q, a sale of the Q and a buy of Q again, all of one
\* code and through handleAddTransaction, the position is that of a first buy:
\* quantity Q, totalCost the cost of the last buy, pru that cost over Q.
C16_BuySellBuyIsFresh ==
    (addOnly /\ Cardinality(db.transactions) = 3) =>
        LET h == InIdOrder(db.transactions)
        IN  (/\ h[1].type = "achat" /\ h[2].type = "vente" /\ h[3].type = "achat"
             /\ h[1].code = h[2].code /\ h[2].code = h[3].code
             /\ h[1].quantity = h[2].quantity /\ h[2].quantity = h[3].quantity)
            => \E p \in db.positions :
                  /\ \A q \in db.positions : q = p
                  /\ p.code = h[3].code
                  /\ p.quantity = h[3].quantity
                  /\ p.totalCost = Num(PurchaseTotalCost(h[3]))
                  /\ p.pru = Div(Num(PurchaseTotalCost(h[3])), Num(h[3].quantity))

\* The third transaction, a buy of 2 with fees after a buy and a sale of 2,
\* has just been added.
C16_Witness ==
    /\ addOnly
    /\ Cardinality(db.transactions) = 3
    /\ LET h == InIdOrder(db.transactions)
       IN  /\ h[1].type = "achat" /\ h[2].type = "vente" /\ h[3].type = "achat"
           /\ h[1].code = h[2].code /\ h[2].code = h[3].code
           /\ h[1].quantity = 2 /\ h[2].quantity = 2 /\ h[3].quantity = 2
           /\ h[3].fees > 0
           /\ db.positions # {}

RECURSIVE SumBuyCost(_)
SumBuyCost(S) ==
    IF S = {} THEN 0
    ELSE LET t == CHOOSE y \in S : TRUE
         IN  (t.quantity * t.unitPrice * t.conversionRate + t.fees + t.tff)
               + SumBuyCost(S \ {t})

RECURSIVE SumQuantity(_)
SumQuantity(S) ==
    IF S = {} THEN 0
    ELSE LET t == CHOOSE y \in S : TRUE IN t.quantity + SumQuantity(S \ {t})

\* The transactions stored are buys only, all of one code as submitted.
BuysOnlyOfOneCode ==
    /\ addOnly
    /\ db.transactions # {}
    /\ \A t, u \in db.transactions : t.type = "achat" /\ t.code = u.code

\* C17: after buys only of one code through handleAddTransaction, the
\* position's totalCost is the sum of quantity * unitPrice * conversionRate
\* + fees + tff over the buys and its quantity the sum of their quantities.
C17_BuysAccumulate ==
    BuysOnlyOfOneCode =>
        \E p \in db.positions :
            /\ \A q \in db.positions : q = p
            /\ p.quantity = SumQuantity(db.transactions)
            /\ p.totalCost = Num(SumBuyCost(db.transactions))

\* Three buys of one code, one of them with a conversion rate and fees.
C17_Witness ==
    /\ BuysOnlyOfOneCode
    /\ Cardinality(db.transactions) = 3
    /\ \E t \in db.transactions : t.conversionRate = 2 /\ t.fees > 0

\* The positions and closed positions of portfolio pid in d and in e are the same.
SamePositions(d, e, pid) ==
    /\ { p \in d.positions : p.portfolioId = pid } = { p \in e.positions : p.portfolioId = pid }
    /\ ClosedOf(d.closed_positions, pid) = ClosedOf(e.closed_positions, pid)

SameTransactions(d, e, pid) ==
    { t \in d.transactions : t.portfolioId = pid } = { t \in e.transactions : t.portfolioId = pid }

\* C11: when a store write fails in handleDeleteTransaction,
\* handleImportTransactions or importDatabase, the positions and closed
\* positions (for the import, the transactions too) are all the old ones or
\* all the new ones.
C11_NeverHalfReplaced ==
    /\ last.op = "deleteTransactionFailing" =>
          \/ SamePositions(db, last.old, last.pid)
          \/ SamePositions(db, last.new, last.pid)
    /\ last.op = "importTransactionsFailing" =>
          \/ SamePositions(db, last.old, last.pid) /\ SameTransactions(db, last.old, last.pid)
          \/ SamePositions(db, last.new, last.pid) /\ SameTransactions(db, last.new, last.pid)
    /\ (last.op = "importDatabase" /\ last.done < last.of) =>
          \/ /\ db.positions = last.old.positions
             /\ db.closed_positions = last.old.closed_positions
          \/ /\ db.positions = last.new.positions
             /\ db.closed_positions = last.new.closed_positions

\* C18: importDatabase, with no write failing, leaves the store as it was when
\* one of the five arrays is missing from the file or portfolios is empty.
C18_InvalidBackupRejected ==
    [][(/\ last'.op = "importDatabase"
        /\ last'.done = last'.of
        /\ \/ last'.data.arrays # BackupArrays
           \/ last'.data.portfolios = <<>>)
       => db' = db]_vars

\* The stored positions of portfolio pid.
StoredPositions(pid) == { p \in db.positions : p.portfolioId = pid }

RECURSIVE SumPositionCounts(_)
SumPositionCounts(ps) ==
    IF ps = <<>> THEN 0
    ELSE Cardinality(StoredPositions(Head(ps).id)) + SumPositionCounts(Tail(ps))

\* C13: in the "ALL" view currentData.positions holds one row per stored
\* position of each portfolio, tagged with that portfolio's id and code (or
\* name), all rows distinct, as many as the portfolios' positions together.
C13_ConsolidatedIsConcatenation ==
    currentPortfolioId = ALL =>
        LET rows == currentDataPositions
        IN  /\ Len(rows) = SumPositionCounts(db.portfolios)
            /\ \A i, j \in DOMAIN rows : i # j => rows[i] # rows[j]
            /\ \A i \in 1..Len(db.portfolios) :
                  LET portfolio == db.portfolios[i]
                  IN  \A p \in StoredPositions(portfolio.id) :
                         Cardinality({ k \in DOMAIN rows :
                             /\ rows[k].portfolioId = portfolio.id
                             /\ rows[k].portfolioCode =
                                  (IF portfolio.code # Null THEN portfolio.code ELSE portfolio.name)
                             /\ \A f \in (DOMAIN p) \ {"portfolioId"} : rows[k][f] = p[f] }) = 1

\* The "ALL" view of two portfolios of the same name, each with a position of
\* the same code, quantity and cost.
C13_Witness ==
    /\ currentPortfolioId = ALL
    /\ Len(db.portfolios) = 2
    /\ db.portfolios[1].name = db.portfolios[2].name
    /\ \E p, q \in db.positions :
          /\ p.portfolioId # q.portfolioId
          /\ [p EXCEPT !.portfolioId = q.portfolioId] = q

\* C14: handleUpdateStopLoss (handleUpdateCurrentPrice) sets stopLoss
\* (manualCurrentPrice) on the positions of the given code in the current
\* portfolio, in every portfolio for "ALL", and changes nothing else: the
\* other fields and positions, the portfolios with their cash, the
\* transactions and the closed positions.
C14_MetadataOnly ==
    [][(last'.op \in {"updateStopLoss", "updateCurrentPrice"}) =>
          LET field == IF last'.op = "updateStopLoss" THEN "stopLoss" ELSE "manualCurrentPrice"
              pids  == IF currentPortfolioId = ALL THEN PortfolioIdsOf(db.portfolios)
                       ELSE {currentPortfolioId}
          IN  /\ db'.portfolios = db.portfolios
              /\ db'.transactions = db.transactions
              /\ db'.closed_positions = db.closed_positions
              /\ db'.positions =
                    { IF p.code = last'.code /\ p.portfolioId \in pids
                      THEN [p EXCEPT ![field] = last'.value] ELSE p : p \in db.positions }]_vars

\* In the "ALL" view a stop loss has just been set on a code two portfolios
\* hold, one of them with a manual price, and a third position has another code.
C14_Witness ==
    /\ last.op = "updateStopLoss"
    /\ currentPortfolioId = ALL
    /\ last.value # Unset
    /\ \E p, q, r \in db.positions :
          /\ p.portfolioId # q.portfolioId
          /\ p.code = last.code /\ q.code = last.code /\ r.code # last.code
          /\ p.stopLoss = last.value /\ q.stopLoss = last.value
          /\ p.manualCurrentPrice # Unset
          /\ r.stopLoss = Unset

\* C19: when the calls TransactionsPage started for the rows of a file have
\* all ended, the cash and the positions of the portfolio are those of
\* submitting the rows one after the other, each call ended before the next.
C19_PageImportIsSerial ==
    (/\ last.op = "pageImport"
     /\ \A i \in DOMAIN calls : CallEnded(calls[i]))
    => \E b \in Build(last.old, last.history, last.pid) :
          /\ CashOf(db, last.pid) = CashOf(b, last.pid)
          /\ StoredPositions(last.pid) = { p \in b.positions : p.portfolioId = last.pid }

\* C20: once no request is in flight, the price shown for each symbol is the
\* one returned to the refresh issued last, when that refresh got an answer.
C20_LatestRefreshShown ==
    (/\ requests = {}
     /\ abortRef \in DOMAIN answers)
    => \A symbol \in Symbols : quotesBySymbol[symbol] = answers[abortRef][symbol]

\* The orders of the trades S by ascending date with, among equal dates, every
\* buy before any sell.
BuyFirstSorted(S) ==
    { seq \in DateSorted(S) :
        \A i, j \in DOMAIN seq :
            (i < j /\ getTime(seq[i].date) = getTime(seq[j].date))
                => ~(seq[i].type = "vente" /\ seq[j].type = "achat") }

\* The transactions of portfolio pid in the store d.
StoredTransactions(d, pid) == { t \in d.transactions : t.portfolioId = pid }

\* C21: the positions and closed positions handleDeleteTransaction leaves are
\* those of going through the remaining buys and sells by ascending date,
\* every buy of a day before any sell of that day.
C21_ReplayBuysFirst ==
    last.op = "deleteTransaction" =>
        LET pid     == currentPortfolioId
            updated == StoredTransactions(db, pid)
            trades  == { t \in updated : t.type \in {"achat", "vente"} }
        IN  \E sorted \in BuyFirstSorted(trades) :
               LET r == Replay(sorted, updated, pid)
               IN  /\ StoredPositions(pid) = r.positions
                   /\ ClosedOf(db.closed_positions, pid) = r.closedPositions

\* Every sell stored for portfolio pid in d has its closed position.
SellsCovered(d, pid) ==
    BagCardinality(ClosedOf(d.closed_positions, pid))
        = Cardinality({ t \in StoredTransactions(d, pid) : t.type = "vente" })

\* C22: when a buy is deleted from a history whose sells all have their closed
\* position, handleDeleteTransaction does not end with a sell left in the
\* history that has none.
C22_NoSilentUncoveredSell ==
    [][(/\ last'.op = "deleteTransaction"
        /\ last'.type = "achat"
        /\ SellsCovered(db, currentPortfolioId))
       => SellsCovered(db', currentPortfolioId)]_vars

\* The closed positions of the bag b that the bag a does not hold, or holds
\* fewer times.
Emitted(a, b) == { r \in DOMAIN b : IF r \in DOMAIN a THEN b[r] > a[r] ELSE TRUE }

\* C24: a closed position a step emits has dividends equal to the sum, net of
\* tax, of the portfolio's dividends of its code dated from its purchaseDate
\* to its saleDate.
C24_DividendsOfHoldingPeriod ==
    [][\A r \in Emitted(db.closed_positions, db'.closed_positions) :
          r.dividends =
             SumDividends({ t \in StoredTransactions(db', r.portfolioId) :
                              /\ t.type = "dividende"
                              /\ t.code = r.code
                              /\ getTime(t.date) >= getTime(r.purchaseDate)
                              /\ getTime(t.date) <= getTime(r.saleDate) })]_vars

\* C26: the recomputation of handleDeleteTransaction costs every remaining buy
\* and sale as handleAddTransaction and handleImportTransactions do, fees and
\* tff not multiplied by the conversion rate.
C26_OneCostRule ==
    last.op = "deleteTransaction" =>
        \A t \in StoredTransactions(db, currentPortfolioId) :
            /\ t.type = "achat" => ReplayTotalCost(t) = PurchaseTotalCost(t)
            /\ t.type = "vente" => ReplayTotalSale(t) = SaleTotalSale(t)

\* The code, quantity, totalCost and pru of the positions of pid in d.
Holdings(d, pid) ==
    { [code |-> p.code, quantity |-> p.quantity, totalCost |-> p.totalCost, pru |-> p.pru] :
        p \in { q \in d.positions : q.portfolioId = pid } }

\* C27: deleting a dividend, a deposit or a withdrawal leaves the quantity,
\* totalCost and pru of every position of the portfolio as they were.
C27_DeleteCashRowKeepsHoldings ==
    [][(/\ last'.op = "deleteTransaction"
        /\ last'.type \in {"dividende", "depot", "retrait"})
       => Holdings(db', currentPortfolioId) = Holdings(db, currentPortfolioId)]_vars

\* C28: every stored closed position has purchaseDate <= saleDate.
C28_PurchaseBeforeSale ==
    \A r \in DOMAIN db.closed_positions : getTime(r.purchaseDate) <= getTime(r.saleDate)

\* C23: a sale that handleAddTransaction carries out for fewer units than the
\* position holds leaves the position with the quantity less the units sold,
\* the totalCost less units * pru and the same pru, emits one closed position
\* with totalPurchase = units * pru, totalSale = units * unitPrice *
\* conversionRate - fees - tff and gainLoss = totalSale - totalPurchase, and
\* raises the cash by totalSale.
C23_PartialSell ==
    [][(last'.op = "addTransaction" /\ last'.tx.type = "vente") =>
         \A pos \in db.positions :
            (/\ pos.portfolioId = last'.tx.portfolioId
             /\ pos.code = last'.tx.code
             /\ last'.tx.quantity < pos.quantity)
            => LET tx            == last'.tx
                   pid           == tx.portfolioId
                   totalSale     == tx.quantity * tx.unitPrice * tx.conversionRate
                                       - tx.fees - tx.tff
                   totalPurchase == Times(Num(tx.quantity), pos.pru)
                   left          == { p \in db'.positions :
                                        p.portfolioId = pid /\ p.code = tx.code }
                   emitted       == Emitted(db.closed_positions, db'.closed_positions)
               IN  /\ Cardinality(left) = 1
                   /\ \A p \in left :
                         /\ p.quantity = pos.quantity - tx.quantity
                         /\ p.totalCost = Minus(pos.totalCost, totalPurchase)
                         /\ p.pru = pos.pru
                   /\ Cardinality(emitted) = 1
                   /\ BagCardinality(db'.closed_positions)
                         = BagCardinality(db.closed_positions) + 1
                   /\ \A r \in emitted :
                         /\ r.portfolioId = pid /\ r.code = tx.code
                         /\ r.totalPurchase = totalPurchase
                         /\ r.totalSale = Num(totalSale)
                         /\ r.gainLoss = Minus(Num(totalSale), totalPurchase)
                   /\ CashOf(db', pid) = CashOf(db, pid) + totalSale]_vars

\* A sale in a foreign currency, with fees and tff, has just been carried out
\* on a position built from two buys of different prices, part of which is left.
C23_Witness ==
    /\ addOnly
    /\ SaleJustDone
    /\ last.tx.conversionRate = 2 /\ last.tx.fees = 1 /\ last.tx.tff = 1
    /\ SellsCovered(db, DefaultPortfolioId)
    /\ \E p \in db.positions :
          p.code = last.tx.code /\ p.quantity = 2 /\ p.pru = Frac(17, 3)

\* C25: when a code was bought, sold in full, bought again and then sold, each
\* entered at its date, the closed position of the last sale has the date of
\* the second buy as purchaseDate.
C25_PurchaseDateOfOpenBuy ==
    [][(addOnly' /\ last'.op = "addTransaction" /\ last'.tx.type = "vente") =>
         LET h == InIdOrder(StoredTransactions(db', last'.tx.portfolioId))
         IN  (/\ Len(h) = 4
              /\ h[1].type = "achat" /\ h[2].type = "vente"
              /\ h[3].type = "achat" /\ h[4].type = "vente"
              /\ h[2].quantity = h[1].quantity
              /\ h[4].quantity <= h[3].quantity
              /\ getTime(h[1].date) <= getTime(h[2].date)
              /\ getTime(h[2].date) <= getTime(h[3].date)
              /\ getTime(h[3].date) <= getTime(h[4].date))
             => LET emitted == Emitted(db.closed_positions, db'.closed_positions)
                IN  /\ emitted # {}
                    /\ \A r \in emitted : r.purchaseDate = h[3].date]_vars

\* C29: a position of the portfolio that is open before and after
\* handleDeleteTransaction keeps its stopLoss and its manualCurrentPrice.
C29_DeleteKeepsStopLossAndPrice ==
    [][last'.op = "deleteTransaction" =>
         \A p \in db.positions, q \in db'.positions :
            (/\ p.portfolioId = currentPortfolioId
             /\ q.portfolioId = currentPortfolioId
             /\ p.code = q.code)
            => /\ q.stopLoss = p.stopLoss
               /\ q.manualCurrentPrice = p.manualCurrentPrice]_vars

\* C30: the current portfolio held in memory is null, "ALL" or the id of a
\* stored portfolio; just after the current portfolio was deleted it is a
\* remaining portfolio, or null when none remains.
C30_CurrentPortfolioExists ==
    /\ currentPortfolioId \in {Null, ALL} \cup PortfolioIdsOf(db.portfolios)
    /\ currentPortfolioId \in {Null, ALL} \cup PortfolioIdsOf(portfolios)
    /\ (last.op = "deletePortfolio" /\ last.current = last.id)
          => IF Len(db.portfolios) > 0
             THEN currentPortfolioId \in PortfolioIdsOf(db.portfolios)
             ELSE currentPortfolioId = Null

\* The current portfolio has just been deleted while another one remained.
C30_Witness ==
    /\ last.op = "deletePortfolio"
    /\ last.current = last.id
    /\ Len(db.portfolios) > 0
    /\ currentPortfolioId = db.portfolios[1].id

====
